---- MODULE Spec2Model ----
(***************************************************************************)
(* The EPA AQS client of code/2.EPA_data_acquisition.ipynb:                *)
(* request_list_info and request_daily_summary, the module-level request   *)
(* template they default to, the caller's copy of it, the throttle sleep   *)
(* and the transport (requests.get / response.json).                       *)
(*                                                                         *)
(* Python strings are TLA+ strings.  A parameter whose value is None is a  *)
(* name missing from the DOMAIN of the argument record.  Time is counted   *)
(* in milliseconds.                                                        *)
(***************************************************************************)
EXTENDS Integers, Sequences, FiniteSets, TLC

VARIABLES
    AQS_REQUEST_TEMPLATE, \* the module-level dict (default request_template)
    request_data,         \* the caller's dict (AQS_REQUEST_TEMPLATE.copy())
    pc,                   \* position of the call in progress
    fn,                   \* which function is running
    args,                 \* the keyword arguments that are not None
    uses_default,         \* TRUE when request_template was not passed
    endpoint_action,      \* name of the endpoint template of the call
    entry_template,       \* contents of request_template at call entry
    request_url,          \* the composed URL
    response,             \* what requests.get returned
    json_response,        \* the value the call returns
    error,                \* message of the exception the call raised
    call_gets,            \* HTTP GETs issued by the call in progress
    clock,                \* wall-clock time, ms
    calls,                \* client calls started
    sleeps,               \* throttle sleeps performed
    n_raised,             \* calls that ended by raising
    get_log,              \* the times at which the transport saw a GET
    call_sleeps,          \* throttle sleeps of the call in progress
    \* the caller: the yearly loop and what it keeps
    data,                 \* the notebook global "data" the loop reads
    i,                    \* the loop variable
    lpc,                  \* position in the caller's cell
    req,                  \* the value the last call gave the caller
    aqis,                 \* the dailies collected for the current year
    aqi,                  \* the list aqi
    year,                 \* the list year
    df,                   \* the rows of the data frame
    fetched,              \* the Data the transport served, per iteration
    passes,               \* calls the caller's request_data was passed to
    plan,                 \* a call to be repeated and the stub's fixture
    seen                  \* what each repeated call requested and gave

vars == << AQS_REQUEST_TEMPLATE, request_data, pc, fn, args, uses_default,
           endpoint_action, entry_template, request_url, response,
           json_response, error, call_gets, clock, calls, sleeps, n_raised,
           get_log, call_sleeps, data, i, lpc, req, aqis, aqi, year, df,
           fetched, passes, plan, seen >>

callerVars ==
    << data, i, lpc, req, aqis, aqi, year, df, fetched, passes, plan, seen >>

----------------------------------------------------------------------------
(* Bounds *)

MaxCalls == 2
RunCalls == 101
Years == {1985, 1986}

----------------------------------------------------------------------------
(* Constants of the notebook *)

API_REQUEST_URL == "https://aqs.epa.gov/data/api"

Lit(s) == [lit |-> s]
Ph(name) == [ph |-> name]

API_ACTION_LIST_CLASSES ==
    << Lit("/list/classes?email="), Ph("email"), Lit("&key="), Ph("key") >>
API_ACTION_LIST_PARAMS ==
    << Lit("/list/parametersByClass?email="), Ph("email"), Lit("&key="),
       Ph("key"), Lit("&pc="), Ph("pclass") >>
API_ACTION_LIST_SITES ==
    << Lit("/list/sitesByCounty?email="), Ph("email"), Lit("&key="),
       Ph("key"), Lit("&state="), Ph("state"), Lit("&county="),
       Ph("county") >>
API_ACTION_DAILY_SUMMARY_COUNTY ==
    << Lit("/dailyData/byCounty?email="), Ph("email"), Lit("&key="),
       Ph("key"), Lit("&param="), Ph("param"), Lit("&bdate="),
       Ph("begin_date"), Lit("&edate="), Ph("end_date"), Lit("&state="),
       Ph("state"), Lit("&county="), Ph("county") >>
API_ACTION_DAILY_SUMMARY_BOX ==
    << Lit("/dailyData/byBox?email="), Ph("email"), Lit("&key="), Ph("key"),
       Lit("&param="), Ph("param"), Lit("&bdate="), Ph("begin_date"),
       Lit("&edate="), Ph("end_date"), Lit("&minlat="), Ph("minlat"),
       Lit("&maxlat="), Ph("maxlat"), Lit("&minlon="), Ph("minlon"),
       Lit("&maxlon="), Ph("maxlon") >>

EndpointTemplate(name) ==
    CASE name = "API_ACTION_LIST_CLASSES" -> API_ACTION_LIST_CLASSES
      [] name = "API_ACTION_LIST_PARAMS" -> API_ACTION_LIST_PARAMS
      [] name = "API_ACTION_LIST_SITES" -> API_ACTION_LIST_SITES
      [] name = "API_ACTION_DAILY_SUMMARY_COUNTY" ->
             API_ACTION_DAILY_SUMMARY_COUNTY
      [] name = "API_ACTION_DAILY_SUMMARY_BOX" -> API_ACTION_DAILY_SUMMARY_BOX

\* seconds become milliseconds: 0.002 s, and (1.0/100.0) s - 0.002 s
API_LATENCY_ASSUMED == 2

\* faulty variant: the quotient 1/100 taken as an integer division
API_THROTTLE_WAIT_IntDiv == (1 \div 100) - API_LATENCY_ASSUMED

API_THROTTLE_WAIT == (1000 \div 100) - API_LATENCY_ASSUMED

\* the float fields hold 0.0; the model keeps the integral part
TemplateLiteral ==
    [ email |-> "", key |-> "", state |-> "", county |-> "",
      begin_date |-> "", end_date |-> "",
      minlat |-> 0, maxlat |-> 0, minlon |-> 0, maxlon |-> 0,
      param |-> "", pclass |-> "" ]

Fields == DOMAIN TemplateLiteral
FloatFields == {"minlat", "maxlat", "minlon", "maxlon"}

AQI_PARAM_CLASS == "AQI POLLUTANTS"
AQI_PARAMS_GASEOUS == "42101,42401,42602,44201"
AQI_PARAMS_PARTICULATES == "81102,88101,88502"
CITY_FIPS == "46103"
USERNAME == "adts@uw.edu"
APIKEY == "greykit72"

----------------------------------------------------------------------------
(* Python values *)

None == [py_none |-> TRUE]
Unset == [unset |-> TRUE]

\* the value of keyword argument n, for an n that was supplied
Supplied(a, n) == n \in DOMAIN a
\* "if x:" for an argument that defaults to None
Truthy(a, n) == Supplied(a, n) /\ a[n] # ""

\* str(i)+'0501', str(i)+'1031'
BeginOf(y) == ToString(y) \o "0501"
EndOf(y) == ToString(y) \o "1031"

\* faulty variant: the county taken from fips[3:]
FipsCounty_OffByOne(fips) == SubSeq(fips, 4, Len(fips))

\* fips[:2] and fips[2:]
FipsState(fips) == SubSeq(fips, 1, IF Len(fips) < 2 THEN Len(fips) ELSE 2)
FipsCounty(fips) == SubSeq(fips, 3, Len(fips))

\* faulty variant: the value is formatted with repr(), as by {name!r}
FormatValue_Repr(t, name) ==
    IF name \in FloatFields THEN ToString(t[name]) \o ".0"
    ELSE "'" \o t[name] \o "'"

\* "{name}".format(**t): str() of a string is the string, of 0.0 is "0.0"
FormatValue(t, name) ==
    IF name \in FloatFields THEN ToString(t[name]) \o ".0" ELSE t[name]

RECURSIVE Format(_, _)
Format(action, t) ==
    IF action = << >> THEN ""
    ELSE LET seg == Head(action)
         IN (IF "ph" \in DOMAIN seg THEN FormatValue(t, seg.ph) ELSE seg.lit)
            \o Format(Tail(action), t)

Placeholders(action) ==
    { action[k].ph : k \in { j \in 1..Len(action) : "ph" \in DOMAIN action[j] } }

----------------------------------------------------------------------------
(* The error messages of the two functions *)

ErrEmail(f) == "Must supply an email address to call '" \o f \o "()'"
ErrKey(f) == "Must supply a key to call '" \o f \o "()'"
ErrParam(f) == "Must supply param values to call '" \o f \o "()'"
ErrBegin(f) == "Must supply a begin_date to call '" \o f \o "()'"
ErrEnd(f) == "Must supply an end_date to call '" \o f \o "()'"
NoError == ""

----------------------------------------------------------------------------
(* request_list_info, up to the composed URL *)

\* faulty variant: a value already in the template wins over the argument
MergeListInfo_TemplateFirst(t, a) ==
    LET t1 == IF Truthy(a, "email_address") /\ t.email = ""
              THEN [t EXCEPT !.email = a.email_address] ELSE t
        t2 == IF Truthy(a, "key") /\ t1.key = ""
              THEN [t1 EXCEPT !.key = a.key] ELSE t1
    IN t2

\* faulty variant: the key is not checked
ValidateListInfo_NoKeyCheck(t) ==
    IF t.email = "" THEN ErrEmail("request_list_info") ELSE NoError

\* faulty variant: the key argument is added to the key in the template
MergeListInfo_Accumulates(t, a) ==
    LET t1 == IF Truthy(a, "email_address")
              THEN [t EXCEPT !.email = a.email_address] ELSE t
        t2 == IF Truthy(a, "key")
              THEN [t1 EXCEPT !.key = t1.key \o a.key] ELSE t1
    IN t2

\* faulty variant: the tests are "if email_address is not None:" and
\* "if key is not None:"
MergeListInfo_NotNoneTest(t, a) ==
    LET t1 == IF Supplied(a, "email_address")
              THEN [t EXCEPT !.email = a.email_address] ELSE t
        t2 == IF Supplied(a, "key") THEN [t1 EXCEPT !.key = a.key] ELSE t1
    IN t2

\* "if email_address: ..." and "if key: ..."
MergeListInfo(t, a) ==
    LET t1 == IF Truthy(a, "email_address")
              THEN [t EXCEPT !.email = a.email_address] ELSE t
        t2 == IF Truthy(a, "key") THEN [t1 EXCEPT !.key = a.key] ELSE t1
    IN t2

\* the two "if not request_template[...]: raise" statements
ValidateListInfo(t) ==
    IF t.email = "" THEN ErrEmail("request_list_info")
    ELSE IF t.key = "" THEN ErrKey("request_list_info")
    ELSE NoError

(* request_daily_summary, up to the composed URL *)

\* faulty variant: without a 5-character fips the state and county are cleared
MergeDailySummary_ClearsGeo(t, a) ==
    LET t1 == IF Truthy(a, "email_address")
              THEN [t EXCEPT !.email = a.email_address] ELSE t
        t2 == IF Truthy(a, "key") THEN [t1 EXCEPT !.key = a.key] ELSE t1
        t3 == IF Truthy(a, "param") THEN [t2 EXCEPT !.param = a.param] ELSE t2
        t4 == IF Truthy(a, "begin_date")
              THEN [t3 EXCEPT !.begin_date = a.begin_date] ELSE t3
        t5 == IF Truthy(a, "end_date")
              THEN [t4 EXCEPT !.end_date = a.end_date] ELSE t4
        t6 == IF Truthy(a, "fips") /\ Len(a.fips) = 5
              THEN [t5 EXCEPT !.state = FipsState(a.fips),
                              !.county = FipsCounty(a.fips)]
              ELSE [t5 EXCEPT !.state = "", !.county = ""]
    IN t6

\* faulty variant: the end_date is not checked
ValidateDailySummary_NoEndCheck(t) ==
    IF t.email = "" THEN ErrEmail("request_daily_summary")
    ELSE IF t.key = "" THEN ErrKey("request_daily_summary")
    ELSE IF t.param = "" THEN ErrParam("request_daily_summary")
    ELSE IF t.begin_date = "" THEN ErrBegin("request_daily_summary")
    ELSE NoError

\* faulty variant: a date is written only where the template has none
MergeDailySummary_KeepsDates(t, a) ==
    LET t1 == IF Truthy(a, "email_address")
              THEN [t EXCEPT !.email = a.email_address] ELSE t
        t2 == IF Truthy(a, "key") THEN [t1 EXCEPT !.key = a.key] ELSE t1
        t3 == IF Truthy(a, "param") THEN [t2 EXCEPT !.param = a.param] ELSE t2
        t4 == IF Truthy(a, "begin_date") /\ t3.begin_date = ""
              THEN [t3 EXCEPT !.begin_date = a.begin_date] ELSE t3
        t5 == IF Truthy(a, "end_date") /\ t4.end_date = ""
              THEN [t4 EXCEPT !.end_date = a.end_date] ELSE t4
        t6 == IF Truthy(a, "fips") /\ Len(a.fips) = 5
              THEN [t5 EXCEPT !.state = FipsState(a.fips),
                              !.county = FipsCounty(a.fips)]
              ELSE t5
    IN t6

\* faulty variant: a fips of any length is split
MergeDailySummary_AnyFips(t, a) ==
    LET t1 == IF Truthy(a, "email_address")
              THEN [t EXCEPT !.email = a.email_address] ELSE t
        t2 == IF Truthy(a, "key") THEN [t1 EXCEPT !.key = a.key] ELSE t1
        t3 == IF Truthy(a, "param") THEN [t2 EXCEPT !.param = a.param] ELSE t2
        t4 == IF Truthy(a, "begin_date")
              THEN [t3 EXCEPT !.begin_date = a.begin_date] ELSE t3
        t5 == IF Truthy(a, "end_date")
              THEN [t4 EXCEPT !.end_date = a.end_date] ELSE t4
        t6 == IF Truthy(a, "fips")
              THEN [t5 EXCEPT !.state = FipsState(a.fips),
                              !.county = FipsCounty(a.fips)]
              ELSE t5
    IN t6

\* the "if ...:" overrides, and the split of a 5-character fips
MergeDailySummary(t, a) ==
    LET t1 == IF Truthy(a, "email_address")
              THEN [t EXCEPT !.email = a.email_address] ELSE t
        t2 == IF Truthy(a, "key") THEN [t1 EXCEPT !.key = a.key] ELSE t1
        t3 == IF Truthy(a, "param") THEN [t2 EXCEPT !.param = a.param] ELSE t2
        t4 == IF Truthy(a, "begin_date")
              THEN [t3 EXCEPT !.begin_date = a.begin_date] ELSE t3
        t5 == IF Truthy(a, "end_date")
              THEN [t4 EXCEPT !.end_date = a.end_date] ELSE t4
        t6 == IF Truthy(a, "fips") /\ Len(a.fips) = 5
              THEN [t5 EXCEPT !.state = FipsState(a.fips),
                              !.county = FipsCounty(a.fips)]
              ELSE t5
    IN t6

\* faulty variant: the key is checked before the email
ValidateDailySummary_KeyFirst(t) ==
    IF t.key = "" THEN ErrKey("request_daily_summary")
    ELSE IF t.email = "" THEN ErrEmail("request_daily_summary")
    ELSE IF t.param = "" THEN ErrParam("request_daily_summary")
    ELSE IF t.begin_date = "" THEN ErrBegin("request_daily_summary")
    ELSE IF t.end_date = "" THEN ErrEnd("request_daily_summary")
    ELSE NoError

\* faulty variant: the county endpoint's state and county are required too
ValidateDailySummary_RequiresGeo(t) ==
    IF t.email = "" THEN ErrEmail("request_daily_summary")
    ELSE IF t.key = "" THEN ErrKey("request_daily_summary")
    ELSE IF t.param = "" THEN ErrParam("request_daily_summary")
    ELSE IF t.begin_date = "" THEN ErrBegin("request_daily_summary")
    ELSE IF t.end_date = "" THEN ErrEnd("request_daily_summary")
    ELSE IF t.state = "" \/ t.county = ""
         THEN "Must supply a state and county to call 'request_daily_summary()'"
    ELSE NoError

ValidateDailySummary(t) ==
    IF t.email = "" THEN ErrEmail("request_daily_summary")
    ELSE IF t.key = "" THEN ErrKey("request_daily_summary")
    ELSE IF t.param = "" THEN ErrParam("request_daily_summary")
    ELSE IF t.begin_date = "" THEN ErrBegin("request_daily_summary")
    ELSE IF t.end_date = "" THEN ErrEnd("request_daily_summary")
    ELSE NoError

Merge(f, t, a) ==
    IF f = "request_list_info" THEN MergeListInfo(t, a)
    ELSE MergeDailySummary(t, a)

Validate(f, t) ==
    IF f = "request_list_info" THEN ValidateListInfo(t)
    ELSE ValidateDailySummary(t)

\* request_url = endpoint_url+endpoint_action.format(**request_template)
ComposeUrl(action, t) == API_REQUEST_URL \o Format(EndpointTemplate(action), t)

\* faulty variant: the except branch yields an empty document
OnException_EmptyDoc == [Header |-> << >>, Data |-> << >>]

\* the except branch: print(e); json_response = None
OnException == None

\* faulty variant: a document whose status is not "Success" is dropped
DecodeJson_StatusChecked(body) ==
    IF body.wellformed /\ body.doc.Header[1].status = "Success"
    THEN body.doc ELSE [py_none |-> TRUE]

\* faulty variant: after the except branch the request is tried again
AfterException_Retry == "get"

\* after the except branch control reaches "return json_response"
AfterException == "return"

\* json_response = response.json(), inside the try block
DecodeJson(body) == IF body.wellformed THEN body.doc ELSE OnException

\* faulty variant: the test of the wait is inverted
ThrottleSleeps_Inverted == API_THROTTLE_WAIT <= 0

\* the throttle statement: if API_THROTTLE_WAIT > 0.0: time.sleep(...)
ThrottleSleeps == API_THROTTLE_WAIT > 0

----------------------------------------------------------------------------
(* The transport *)

Doc(status, records) ==
    [Header |-> << [status |-> status] >>, Data |-> records]
Statuses == {"Success", "Failed"}
DataFixtures == { << >> }
Docs == { Doc(s, d) : s \in Statuses, d \in DataFixtures }

\* what requests.get returns: a body that decodes to a document, or one
\* on which response.json() raises
Bodies == { [wellformed |-> TRUE, doc |-> d] : d \in Docs }
              \cup { [wellformed |-> FALSE] }

----------------------------------------------------------------------------
(* The inputs of the calls *)

Restrict(f, S) == [n \in S |-> f[n]]

OtherEmail == "x@uw.edu"
OtherKey == "otherkey"
ShortFips == "4610"
OtherFips == "53033"

AnyYear == CHOOSE y \in Years : TRUE

\* every argument supplied, for year y
FullArgs(y) ==
    [ email_address |-> OtherEmail, key |-> OtherKey,
      param |-> AQI_PARAMS_GASEOUS, begin_date |-> BeginOf(y),
      end_date |-> EndOf(y), fips |-> CITY_FIPS ]

ListInfoArgNames == {"email_address", "key"}
DailySummaryArgNames ==
    {"email_address", "key", "param", "begin_date", "end_date", "fips"}

\* the argument records tried: all arguments, all but one, one alone, none;
\* an empty string for email_address; a fips that is not 5 characters long
ArgSubsets(names) ==
    {names, {}} \cup { names \ {n} : n \in names } \cup { {n} : n \in names }

ListInfoArgs ==
    { Restrict(FullArgs(AnyYear), S) : S \in ArgSubsets(ListInfoArgNames) }
        \cup { [email_address |-> ""], [email_address |-> "", key |-> OtherKey],
               [key |-> ""] }

DailySummaryArgs ==
    UNION { { Restrict(FullArgs(y), S) : S \in ArgSubsets(DailySummaryArgNames) }
              : y \in Years }
        \cup { [email_address |-> ""], [key |-> ""], [fips |-> ShortFips],
               [fips |-> ""],
               [fips |-> OtherFips],
               [FullArgs(AnyYear) EXCEPT !.fips = ShortFips] }

ListInfoActions ==
    {"API_ACTION_LIST_CLASSES", "API_ACTION_LIST_PARAMS",
     "API_ACTION_LIST_SITES"}
DailySummaryActions ==
    {"API_ACTION_DAILY_SUMMARY_COUNTY", "API_ACTION_DAILY_SUMMARY_BOX"}

\* request_data = AQS_REQUEST_TEMPLATE.copy() followed by the caller's
\* assignments request_data['email'] = USERNAME, ...
CallerTemplates ==
    { [TemplateLiteral EXCEPT !.email = e, !.key = k, !.state = g[1],
                              !.county = g[2], !.param = p, !.pclass = c] :
        e \in {"", USERNAME}, k \in {"", APIKEY},
        g \in { <<"", "">>, <<FipsState(CITY_FIPS), FipsCounty(CITY_FIPS)>> },
        p \in {"", AQI_PARAMS_PARTICULATES}, c \in {AQI_PARAM_CLASS} }
CallerTemplatesUsed ==
    { t \in CallerTemplates : (t.state = "") = (t.param = "") }

----------------------------------------------------------------------------
(* State *)

\* the dict the parameter request_template refers to
request_template == IF uses_default THEN AQS_REQUEST_TEMPLATE ELSE request_data

\* no cell of the caller is running
NoCaller ==
    /\ data = Unset
    /\ i = 0
    /\ lpc = "-"
    /\ req = Unset
    /\ aqis = << >>
    /\ aqi = << >>
    /\ year = << >>
    /\ df = Unset
    /\ fetched = << >>
    /\ passes = 0
    /\ plan = Unset
    /\ seen = << >>

Init ==
    /\ AQS_REQUEST_TEMPLATE = TemplateLiteral
    /\ request_data \in CallerTemplatesUsed
    /\ pc = "idle"
    /\ fn = "-"
    /\ args = << >>
    /\ uses_default = FALSE
    /\ endpoint_action = "-"
    /\ entry_template = Unset
    /\ request_url = ""
    /\ response = Unset
    /\ json_response = Unset
    /\ error = NoError
    /\ call_gets = 0
    /\ clock = 0
    /\ calls = 0
    /\ sleeps = 0
    /\ n_raised = 0
    /\ get_log = << >>
    /\ call_sleeps = 0
    /\ NoCaller

\* faulty variant: the required fields are checked in the template as
\* passed, and the overrides are written only when the check has passed
Call_ValidatesFirst(f, a, action, dflt) ==
    /\ pc = "idle"
    /\ fn' = f
    /\ args' = a
    /\ uses_default' = dflt
    /\ endpoint_action' = action
    /\ entry_template' = IF dflt THEN AQS_REQUEST_TEMPLATE ELSE request_data
    /\ LET e == Validate(f, entry_template')
           t == Merge(f, entry_template', a)
       IN IF e # NoError
          THEN /\ pc' = "raised"
               /\ error' = e
               /\ n_raised' = n_raised + 1
               /\ request_url' = ""
               /\ UNCHANGED << AQS_REQUEST_TEMPLATE, request_data >>
          ELSE /\ pc' = "throttle"
               /\ error' = NoError
               /\ request_url' = ComposeUrl(action, t)
               /\ UNCHANGED n_raised
               /\ IF dflt
                  THEN /\ AQS_REQUEST_TEMPLATE' = t
                       /\ UNCHANGED request_data
                  ELSE /\ request_data' = t
                       /\ UNCHANGED AQS_REQUEST_TEMPLATE
    /\ calls' = calls + 1
    /\ call_gets' = 0
    /\ call_sleeps' = 0
    /\ response' = Unset
    /\ json_response' = Unset
    /\ UNCHANGED << clock, sleeps, get_log >>

\* faulty variant: the overrides are written into the module-level dict
\* as well as into the dict that was passed
Call_WritesDefaultToo(f, a, action, dflt) ==
    /\ pc = "idle"
    /\ fn' = f
    /\ args' = a
    /\ uses_default' = dflt
    /\ endpoint_action' = action
    /\ entry_template' = IF dflt THEN AQS_REQUEST_TEMPLATE ELSE request_data
    /\ AQS_REQUEST_TEMPLATE' = Merge(f, AQS_REQUEST_TEMPLATE, a)
    /\ IF dflt
       THEN UNCHANGED request_data
       ELSE request_data' = Merge(f, request_data, a)
    /\ LET t == Merge(f, entry_template', a)
           e == Validate(f, t)
       IN IF e # NoError
          THEN /\ pc' = "raised"
               /\ error' = e
               /\ n_raised' = n_raised + 1
               /\ request_url' = ""
          ELSE /\ pc' = "throttle"
               /\ error' = NoError
               /\ request_url' = ComposeUrl(action, t)
               /\ UNCHANGED n_raised
    /\ calls' = calls + 1
    /\ call_gets' = 0
    /\ call_sleeps' = 0
    /\ response' = Unset
    /\ json_response' = Unset
    /\ UNCHANGED << clock, sleeps, get_log >>

\* a call, from its entry to the try block or to the raise: the overrides
\* are written into the dict request_template refers to, the required
\* fields are checked, the URL is composed
Call(f, a, action, dflt) ==
    /\ pc = "idle"
    /\ fn' = f
    /\ args' = a
    /\ uses_default' = dflt
    /\ endpoint_action' = action
    /\ entry_template' = IF dflt THEN AQS_REQUEST_TEMPLATE ELSE request_data
    /\ IF dflt
       THEN /\ AQS_REQUEST_TEMPLATE' = Merge(f, AQS_REQUEST_TEMPLATE, a)
            /\ UNCHANGED request_data
       ELSE /\ request_data' = Merge(f, request_data, a)
            /\ UNCHANGED AQS_REQUEST_TEMPLATE
    /\ LET t == Merge(f, entry_template', a)
           e == Validate(f, t)
       IN IF e # NoError
          THEN /\ pc' = "raised"
               /\ error' = e
               /\ n_raised' = n_raised + 1
               /\ request_url' = ""
          ELSE /\ pc' = "throttle"
               /\ error' = NoError
               /\ request_url' = ComposeUrl(action, t)
               /\ UNCHANGED n_raised
    /\ calls' = calls + 1
    /\ call_gets' = 0
    /\ call_sleeps' = 0
    /\ response' = Unset
    /\ json_response' = Unset
    /\ UNCHANGED << clock, sleeps, get_log >>

request_list_info(a, action, dflt) ==
    Call("request_list_info", a, action, dflt)

request_daily_summary(a, action, dflt) ==
    Call("request_daily_summary", a, action, dflt)

\* first statement of the try block
Throttle ==
    /\ pc = "throttle"
    /\ IF ThrottleSleeps
       THEN /\ clock' = clock + API_THROTTLE_WAIT
            /\ sleeps' = sleeps + 1
            /\ call_sleeps' = call_sleeps + 1
       ELSE UNCHANGED << clock, sleeps, call_sleeps >>
    /\ pc' = "get"
    /\ UNCHANGED << AQS_REQUEST_TEMPLATE, request_data, fn, args,
                    uses_default, endpoint_action, entry_template,
                    request_url, response, json_response, error, call_gets,
                    calls, n_raised, get_log >>
    /\ UNCHANGED callerVars

\* response = requests.get(request_url, headers=headers): the transport
\* sees the request, then answers with a body or raises
Get(bodies, mayRaise) ==
    /\ pc = "get"
    /\ get_log' = Append(get_log, clock)
    /\ call_gets' = call_gets + 1
    /\ clock' = clock + API_LATENCY_ASSUMED
    /\ \/ \E b \in bodies :
             /\ response' = b
             /\ pc' = "decode"
             /\ UNCHANGED json_response
       \/ /\ mayRaise
          /\ json_response' = OnException
          /\ pc' = AfterException
          /\ UNCHANGED response
    /\ UNCHANGED << AQS_REQUEST_TEMPLATE, request_data, fn, args,
                    uses_default, endpoint_action, entry_template,
                    request_url, error, calls, sleeps, n_raised,
                    call_sleeps >>

\* json_response = response.json()
Decode ==
    /\ pc = "decode"
    /\ json_response' = DecodeJson(response)
    /\ pc' = "return"
    /\ UNCHANGED << AQS_REQUEST_TEMPLATE, request_data, fn, args,
                    uses_default, endpoint_action, entry_template,
                    request_url, response, error, call_gets, clock, calls,
                    sleeps, n_raised, get_log, call_sleeps >>
    /\ UNCHANGED callerVars

\* control is back in the caller, by return or by the raised exception
EndCall ==
    /\ pc \in {"return", "raised"}
    /\ pc' = "idle"
    /\ fn' = "-"
    /\ args' = << >>
    /\ uses_default' = FALSE
    /\ endpoint_action' = "-"
    /\ entry_template' = Unset
    /\ request_url' = ""
    /\ response' = Unset
    /\ json_response' = Unset
    /\ error' = NoError
    /\ call_gets' = 0
    /\ call_sleeps' = 0
    /\ UNCHANGED << AQS_REQUEST_TEMPLATE, request_data, clock, calls, sleeps,
                    n_raised, get_log >>

\* the caller keeps nothing of the call
Return == EndCall /\ UNCHANGED callerVars

CallListInfo ==
    /\ calls < MaxCalls
    /\ \E a \in ListInfoArgs, action \in ListInfoActions, dflt \in BOOLEAN :
          request_list_info(a, action, dflt)
    /\ UNCHANGED callerVars

CallDailySummary ==
    /\ calls < MaxCalls
    /\ \E a \in DailySummaryArgs, action \in DailySummaryActions,
          dflt \in BOOLEAN :
          request_daily_summary(a, action, dflt)
    /\ UNCHANGED callerVars

Transport == Get(Bodies, TRUE) /\ UNCHANGED callerVars

Next ==
    \/ CallListInfo
    \/ CallDailySummary
    \/ Throttle
    \/ Transport
    \/ Decode
    \/ Return

Spec == Init /\ [][Next]_vars

----------------------------------------------------------------------------
(* A long run of calls, each with the credentials in its template and all   *)
(* the arguments of the yearly loop, for the request rate                  *)

RunTemplate ==
    [TemplateLiteral EXCEPT !.email = USERNAME, !.key = APIKEY,
                            !.state = FipsState(CITY_FIPS),
                            !.county = FipsCounty(CITY_FIPS),
                            !.param = AQI_PARAMS_PARTICULATES]

InitRun ==
    /\ AQS_REQUEST_TEMPLATE = TemplateLiteral
    /\ request_data = RunTemplate
    /\ pc = "idle"
    /\ fn = "-"
    /\ args = << >>
    /\ uses_default = FALSE
    /\ endpoint_action = "-"
    /\ entry_template = Unset
    /\ request_url = ""
    /\ response = Unset
    /\ json_response = Unset
    /\ error = NoError
    /\ call_gets = 0
    /\ clock = 0
    /\ calls = 0
    /\ sleeps = 0
    /\ n_raised = 0
    /\ get_log = << >>
    /\ call_sleeps = 0
    /\ NoCaller

RunListInfo ==
    /\ calls < RunCalls
    /\ request_list_info(<< >>, "API_ACTION_LIST_SITES", FALSE)
    /\ UNCHANGED callerVars

RunDailySummary ==
    /\ calls < RunCalls
    /\ request_daily_summary(
           [begin_date |-> BeginOf(AnyYear), end_date |-> EndOf(AnyYear)],
           "API_ACTION_DAILY_SUMMARY_COUNTY", FALSE)
    /\ UNCHANGED callerVars

NextRun ==
    \/ RunListInfo
    \/ RunDailySummary
    \/ Throttle
    \/ Transport
    \/ Decode
    \/ Return

SpecRun == InitRun /\ [][NextRun]_vars

----------------------------------------------------------------------------
(* A cell that calls request_list_info, run twice over against a transport *)
(* that answers the same way each time                                     *)

\* no call has been made
NoCall ==
    /\ pc = "idle"
    /\ fn = "-"
    /\ args = << >>
    /\ uses_default = FALSE
    /\ endpoint_action = "-"
    /\ entry_template = Unset
    /\ request_url = ""
    /\ response = Unset
    /\ json_response = Unset
    /\ error = NoError
    /\ call_gets = 0
    /\ clock = 0
    /\ calls = 0
    /\ sleeps = 0
    /\ n_raised = 0
    /\ get_log = << >>
    /\ call_sleeps = 0

\* the transport raises instead of answering
StubRaises == [raises |-> TRUE]
Stubs == Bodies \cup {StubRaises}

\* what the caller can see of a finished call
Observed ==
    [url |-> request_url, out |-> json_response, error |-> error,
     template |-> request_template]

InitTwice ==
    /\ AQS_REQUEST_TEMPLATE = TemplateLiteral
    /\ request_data \in CallerTemplatesUsed
    /\ NoCall
    /\ plan \in [a : ListInfoArgs, action : ListInfoActions,
                 dflt : BOOLEAN, stub : Stubs]
    /\ lpc = "cell"
    /\ seen = << >>
    /\ data = Unset
    /\ i = 0
    /\ req = Unset
    /\ aqis = << >>
    /\ aqi = << >>
    /\ year = << >>
    /\ df = Unset
    /\ fetched = << >>
    /\ passes = 0

TwiceCall ==
    /\ Len(seen) < 2
    /\ request_list_info(plan.a, plan.action, plan.dflt)
    /\ UNCHANGED callerVars

TwiceTransport ==
    /\ Get({plan.stub} \ {StubRaises}, plan.stub = StubRaises)
    /\ UNCHANGED callerVars

TwiceReturn ==
    /\ seen' = Append(seen, Observed)
    /\ EndCall
    /\ UNCHANGED << data, i, lpc, req, aqis, aqi, year, df, fetched, passes,
                    plan >>

NextTwice ==
    \/ TwiceCall
    \/ Throttle
    \/ TwiceTransport
    \/ Decode
    \/ TwiceReturn

SpecTwice == InitTwice /\ [][NextTwice]_vars

----------------------------------------------------------------------------
(* The yearly loop and the data frame made of its lists                    *)

\* range(1963, 2024)
LoopFirst == 1963
LoopStop == 2024

\* a JSON number, a daily record
Number(n) == [number |-> n]
Day(v) == [aqi |-> v]

\* the "Data" lists the transport serves for a year that has records
LoopFixtures ==
    { << >>,
      << Day(Number(5)), Day(None), Day(Number(15)) >>,
      << Day(Number(10)), Day(None), Day(Number(20)) >>,
      << Day(None), Day(None) >>,
      << Day(Number(0)), Day(Number(0)) >> }

\* the transport has records for the years in Years only
LoopBodies(y) ==
    { [wellformed |-> TRUE, doc |-> Doc(st, d)] :
        st \in Statuses, d \in (IF y \in Years THEN LoopFixtures ELSE { << >> }) }
      \cup { [wellformed |-> FALSE] }

\* the name "data" is assigned by no cell: it is unbound, or bound to what
\* an earlier session left, a dict with or without the key "aqi"
DataGlobals == { Unset, Day(Number(42)), [state |-> "South Dakota"] }

\* the position of range(1963, 2024): year.append(i) ends each iteration
NextYear == LoopFirst + Len(year)

RECURSIVE SumOf(_)
SumOf(xs) == IF xs = << >> THEN 0 ELSE xs[1] + SumOf(Tail(xs))

\* np.mean(aqis), as the exact quotient sum / count
Mean(xs) == [sum |-> SumOf(xs), count |-> Len(xs)]

\* the body of "for day in req['Data']" over all days, with data = d:
\* if "aqi" in list(data.keys()): if day['aqi'] != None: aqis.append(...)
Collect(d, records) ==
    LET kept == SelectSeq(records,
                    LAMBDA day : "aqi" \in DOMAIN d /\ day.aqi # None)
    IN [k \in 1..Len(kept) |-> kept[k].aqi.number]

\* df.aqi > 0: None has become NaN, and NaN > 0 is False
Positive(row) == IF row.aqi = None THEN FALSE ELSE row.aqi.sum > 0

InitLoop ==
    /\ AQS_REQUEST_TEMPLATE = TemplateLiteral
    /\ request_data \in CallerTemplatesUsed
    /\ NoCall
    /\ data \in DataGlobals
    /\ i = 0
    /\ lpc = "cell"
    /\ req = Unset
    /\ aqis = << >>
    /\ aqi = << >>
    /\ year = << >>
    /\ df = Unset
    /\ fetched = << >>
    /\ passes = 0
    /\ plan = Unset
    /\ seen = << >>

\* request_data = AQS_REQUEST_TEMPLATE.copy(); request_data['email'] = ...;
\* aqi = []; year = []
LoopSetup ==
    /\ lpc = "cell"
    /\ request_data' =
         [AQS_REQUEST_TEMPLATE EXCEPT !.email = USERNAME, !.key = APIKEY,
                                      !.state = FipsState(CITY_FIPS),
                                      !.county = FipsCounty(CITY_FIPS),
                                      !.param = AQI_PARAMS_PARTICULATES]
    /\ aqi' = << >>
    /\ year' = << >>
    /\ passes' = 0
    /\ lpc' = "for"
    /\ UNCHANGED << AQS_REQUEST_TEMPLATE, pc, fn, args, uses_default,
                    endpoint_action, entry_template, request_url, response,
                    json_response, error, call_gets, clock, calls, sleeps,
                    n_raised, get_log, call_sleeps >>
    /\ UNCHANGED << data, i, req, aqis, df, fetched, plan, seen >>

\* for i in range(1963, 2024): aqis = []; req = request_daily_summary(
\*     request_template=request_data, begin_date=str(i)+'0501', ...)
LoopCall ==
    /\ lpc = "for"
    /\ NextYear < LoopStop
    /\ i' = NextYear
    /\ aqis' = << >>
    /\ request_daily_summary(
           [begin_date |-> BeginOf(NextYear), end_date |-> EndOf(NextYear)],
           "API_ACTION_DAILY_SUMMARY_COUNTY", FALSE)
    /\ passes' = passes + 1
    /\ lpc' = "call"
    /\ UNCHANGED << data, req, aqi, year, df, fetched, plan, seen >>

\* the transport answers the loop's request
LoopTransport ==
    /\ lpc = "call"
    /\ Get(LoopBodies(i), TRUE)
    /\ fetched' = Append(fetched,
                     IF pc' = "decode" /\ response'.wellformed
                     THEN response'.doc.Data ELSE << >>)
    /\ UNCHANGED << data, i, lpc, req, aqis, aqi, year, df, passes, plan,
                    seen >>

\* req = <the returned value>, or the call's exception ends the cell
LoopReturn ==
    /\ lpc = "call"
    /\ IF pc = "return"
       THEN /\ req' = json_response
            /\ lpc' = "days"
       ELSE /\ lpc' = "aborted"
            /\ UNCHANGED req
    /\ EndCall
    /\ UNCHANGED << data, i, aqis, aqi, year, df, fetched, passes, plan,
                    seen >>

\* faulty variant: a None result is taken as a year without records
CollectDays_SkipsNull ==
    /\ lpc = "days"
    /\ IF req # None /\ req.Data # << >> /\ data = Unset
       THEN lpc' = "aborted" /\ UNCHANGED aqis
       ELSE /\ aqis' = (IF req = None THEN << >>
                        ELSE IF req.Data = << >> THEN << >>
                        ELSE Collect(data, req.Data))
            /\ lpc' = "store"
    /\ UNCHANGED << AQS_REQUEST_TEMPLATE, request_data, pc, fn, args,
                    uses_default, endpoint_action, entry_template,
                    request_url, response, json_response, error, call_gets,
                    clock, calls, sleeps, n_raised, get_log, call_sleeps >>
    /\ UNCHANGED << data, i, req, aqi, year, df, fetched, passes, plan,
                    seen >>

\* for day in req["Data"]: ...  req["Data"] of None is a TypeError; with
\* at least one day, reading the unbound name data is a NameError
CollectDays ==
    /\ lpc = "days"
    /\ IF req = None
       THEN lpc' = "aborted" /\ UNCHANGED aqis
       ELSE IF req.Data # << >> /\ data = Unset
       THEN lpc' = "aborted" /\ UNCHANGED aqis
       ELSE /\ aqis' = (IF req.Data = << >> THEN << >>
                        ELSE Collect(data, req.Data))
            /\ lpc' = "store"
    /\ UNCHANGED << AQS_REQUEST_TEMPLATE, request_data, pc, fn, args,
                    uses_default, endpoint_action, entry_template,
                    request_url, response, json_response, error, call_gets,
                    clock, calls, sleeps, n_raised, get_log, call_sleeps >>
    /\ UNCHANGED << data, i, req, aqi, year, df, fetched, passes, plan,
                    seen >>

\* faulty variant: a year without values is left out of both lists
StoreYear_SkipsEmptyYear ==
    /\ lpc = "store"
    /\ IF Len(aqis) > 0
       THEN /\ aqi' = Append(aqi, Mean(aqis))
            /\ year' = Append(year, i)
       ELSE UNCHANGED << aqi, year >>
    /\ lpc' = "for"
    /\ UNCHANGED << AQS_REQUEST_TEMPLATE, request_data, pc, fn, args,
                    uses_default, endpoint_action, entry_template,
                    request_url, response, json_response, error, call_gets,
                    clock, calls, sleeps, n_raised, get_log, call_sleeps >>
    /\ UNCHANGED << data, i, req, aqis, df, fetched, passes, plan, seen >>

\* if len(aqis) > 0: aqi.append(np.mean(aqis)) else: aqi.append(None);
\* year.append(i)
StoreYear ==
    /\ lpc = "store"
    /\ aqi' = Append(aqi, IF Len(aqis) > 0 THEN Mean(aqis) ELSE None)
    /\ year' = Append(year, i)
    /\ lpc' = "for"
    /\ UNCHANGED << AQS_REQUEST_TEMPLATE, request_data, pc, fn, args,
                    uses_default, endpoint_action, entry_template,
                    request_url, response, json_response, error, call_gets,
                    clock, calls, sleeps, n_raised, get_log, call_sleeps >>
    /\ UNCHANGED << data, i, req, aqis, df, fetched, passes, plan, seen >>

\* the loop is over; df = pd.DataFrame({'aqi': aqi, 'year': year})
MakeFrame ==
    /\ lpc = "for"
    /\ NextYear = LoopStop
    /\ df' = [k \in 1..Len(year) |-> [aqi |-> aqi[k], year |-> year[k]]]
    /\ lpc' = "filter"
    /\ UNCHANGED << AQS_REQUEST_TEMPLATE, request_data, pc, fn, args,
                    uses_default, endpoint_action, entry_template,
                    request_url, response, json_response, error, call_gets,
                    clock, calls, sleeps, n_raised, get_log, call_sleeps >>
    /\ UNCHANGED << data, i, req, aqis, aqi, year, fetched, passes, plan,
                    seen >>

\* df = df[df.aqi > 0]; df.to_csv(...) is commented out.  A column of
\* None only keeps dtype object, where the comparison with 0 either
\* raises or is False on every row, depending on the pandas release
FilterFrame ==
    /\ lpc = "filter"
    /\ \/ /\ df' = SelectSeq(df, Positive)
          /\ lpc' = "done"
       \/ /\ \A k \in 1..Len(df) : df[k].aqi = None
          /\ lpc' = "aborted"
          /\ UNCHANGED df
    /\ UNCHANGED << AQS_REQUEST_TEMPLATE, request_data, pc, fn, args,
                    uses_default, endpoint_action, entry_template,
                    request_url, response, json_response, error, call_gets,
                    clock, calls, sleeps, n_raised, get_log, call_sleeps >>
    /\ UNCHANGED << data, i, req, aqis, aqi, year, fetched, passes, plan,
                    seen >>

NextLoop ==
    \/ LoopSetup
    \/ LoopCall
    \/ Throttle
    \/ LoopTransport
    \/ Decode
    \/ LoopReturn
    \/ CollectDays
    \/ StoreYear
    \/ MakeFrame
    \/ FilterFrame

SpecLoop == InitLoop /\ [][NextLoop]_vars

----------------------------------------------------------------------------
(* Calls that are passed a dict from which a key is missing                *)

\* the caller's dicts: complete ones, and the same with one key deleted
WholeTemplates ==
    { RunTemplate,
      [RunTemplate EXCEPT !.begin_date = BeginOf(AnyYear),
                          !.end_date = EndOf(AnyYear),
                          !.pclass = AQI_PARAM_CLASS] }
PartialTemplates ==
    WholeTemplates
      \cup { Restrict(t, Fields \ {k}) : t \in WholeTemplates, k \in Fields }

\* the dict with the module-level values under its missing keys
Complete(t) ==
    [k \in Fields |-> IF k \in DOMAIN t THEN t[k] ELSE TemplateLiteral[k]]

\* the keys the overrides assign: request_template[...] = ... makes the key
Written(f, a) ==
    { k \in Fields : Merge(f, TemplateLiteral, a)[k] # TemplateLiteral[k] }

\* the dict after the overrides
MergeDict(f, t, a) ==
    Restrict(Merge(f, Complete(t), a), DOMAIN t \cup Written(f, a))

\* the keys the "if not request_template[...]" statements read, in order
ReadByValidation(f) ==
    IF f = "request_list_info" THEN << "email", "key" >>
    ELSE << "email", "key", "param", "begin_date", "end_date" >>

\* str(KeyError(k)), with the exception's name
KeyErrorOf(k) == "KeyError: '" \o k \o "'"

\* the checks on a dict: reading a missing key raises KeyError
ValidateDict(f, t) ==
    LET order == ReadByValidation(f)
        bad == { k \in 1..Len(order) :
                   IF order[k] \in DOMAIN t THEN t[order[k]] = "" ELSE TRUE }
    IN IF bad = {} THEN NoError
       ELSE LET first == CHOOSE k \in bad : \A m \in bad : k <= m
            IN IF order[first] \in DOMAIN t THEN Validate(f, Complete(t))
               ELSE KeyErrorOf(order[first])

\* faulty variant: a missing key is formatted as the module-level value
MissingPlaceholders_Defaulted(action, t) == {}

\* the positions of the endpoint's placeholders that t has no key for
MissingPlaceholders(action, t) ==
    { k \in 1..Len(action) :
        IF "ph" \in DOMAIN action[k] THEN action[k].ph \notin DOMAIN t
        ELSE FALSE }

\* endpoint_action.format(**request_template): the first placeholder
\* without a key raises KeyError
FormatError(action, t) ==
    LET missing == MissingPlaceholders(action, t)
    IN IF missing = {} THEN NoError
       ELSE KeyErrorOf(action[CHOOSE k \in missing :
                                 \A m \in missing : k <= m].ph)

\* the arguments of these calls
PartialListInfoArgs ==
    { << >>, [email_address |-> OtherEmail],
      [email_address |-> OtherEmail, key |-> OtherKey] }
PartialDailySummaryArgs ==
    { << >>, FullArgs(AnyYear), [fips |-> OtherFips],
      [begin_date |-> BeginOf(AnyYear), end_date |-> EndOf(AnyYear)] }

InitPartial ==
    /\ AQS_REQUEST_TEMPLATE = TemplateLiteral
    /\ request_data \in PartialTemplates
    /\ NoCall
    /\ NoCaller

\* a call with request_template=request_data, from its entry to the try
\* block or to the raise
CallDict(f, a, action) ==
    /\ pc = "idle"
    /\ fn' = f
    /\ args' = a
    /\ uses_default' = FALSE
    /\ endpoint_action' = action
    /\ entry_template' = request_data
    /\ request_data' = MergeDict(f, request_data, a)
    /\ LET t == request_data'
           e == ValidateDict(f, t)
           k == IF e # NoError THEN e
                ELSE FormatError(EndpointTemplate(action), t)
       IN IF k # NoError
          THEN /\ pc' = "raised"
               /\ error' = k
               /\ n_raised' = n_raised + 1
               /\ request_url' = ""
          ELSE /\ pc' = "throttle"
               /\ error' = NoError
               /\ request_url' = ComposeUrl(action, Complete(t))
               /\ UNCHANGED n_raised
    /\ calls' = calls + 1
    /\ call_gets' = 0
    /\ call_sleeps' = 0
    /\ response' = Unset
    /\ json_response' = Unset
    /\ UNCHANGED << AQS_REQUEST_TEMPLATE, clock, sleeps, get_log >>
    /\ UNCHANGED callerVars

PartialListInfo ==
    /\ calls < MaxCalls
    /\ \E a \in PartialListInfoArgs, action \in ListInfoActions :
          CallDict("request_list_info", a, action)

PartialDailySummary ==
    /\ calls < MaxCalls
    /\ \E a \in PartialDailySummaryArgs, action \in DailySummaryActions :
          CallDict("request_daily_summary", a, action)

NextPartial ==
    \/ PartialListInfo
    \/ PartialDailySummary
    \/ Throttle
    \/ Transport
    \/ Decode
    \/ Return

SpecPartial == InitPartial /\ [][NextPartial]_vars

----------------------------------------------------------------------------
(* Vocabulary of the properties *)

InCall == pc # "idle"
PastValidation == pc \in {"throttle", "get", "decode", "return"}

\* the message contains the field's name
Names(msg, field) ==
    \E k \in 1..(Len(msg) - Len(field) + 1) :
        SubSeq(msg, k, k + Len(field) - 1) = field

EndsWith(str, suffix) ==
    /\ Len(str) >= Len(suffix)
    /\ SubSeq(str, Len(str) - Len(suffix) + 1, Len(str)) = suffix

\* the template field an argument overrides
ArgField(n) == IF n = "email_address" THEN "email" ELSE n

\* the fields for which the call in progress was given an override
OverriddenFields(a) ==
    { ArgField(n) : n \in DOMAIN a \ {"fips"} }
        \cup (IF "fips" \in DOMAIN a THEN {"state", "county"} ELSE {})

\* the transport or the decoder raised in the call in progress
TransportFailed ==
    /\ pc = "return"
    /\ IF response = Unset THEN TRUE ELSE ~response.wellformed

----------------------------------------------------------------------------
(* C1: whenever the merged template of a call has an empty email or key,   *)
(* the call has raised an error and has issued no HTTP GET.                *)
C1_MissingCredentialRaisesBeforeGet ==
    (InCall /\ (request_template.email = "" \/ request_template.key = ""))
        => /\ pc = "raised"
           /\ error \in {ErrEmail(fn), ErrKey(fn)}
           /\ call_gets = 0
           /\ request_url = ""

C1_Witness ==
    /\ pc = "raised"
    /\ fn = "request_list_info"
    /\ request_template.email # ""
    /\ request_template.key = ""
    /\ Len(get_log) > 0
    /\ call_gets = 0

(* C2: a request_daily_summary call whose merged template has email and    *)
(* key but an empty param, begin_date or end_date has raised an error      *)
(* whose message names an empty one of these fields, and has issued no     *)
(* HTTP GET.                                                               *)
C2_MissingQueryFieldRaisesBeforeGet ==
    ( /\ InCall
      /\ fn = "request_daily_summary"
      /\ request_template.email # ""
      /\ request_template.key # ""
      /\ \E f \in {"param", "begin_date", "end_date"} :
             request_template[f] = "" )
        => /\ pc = "raised"
           /\ call_gets = 0
           /\ \E f \in {"param", "begin_date", "end_date"} :
                  /\ request_template[f] = ""
                  /\ Names(error, f)
           /\ \A f \in {"param", "begin_date", "end_date"} :
                  ( /\ request_template[f] = ""
                    /\ \A g \in {"param", "begin_date", "end_date"} \ {f} :
                           request_template[g] # "" )
                      => Names(error, f)

C2_Witness ==
    /\ pc = "raised"
    /\ fn = "request_daily_summary"
    /\ request_template.email # ""
    /\ request_template.key # ""
    /\ request_template.param # ""
    /\ request_template.begin_date # ""
    /\ request_template.end_date = ""
    /\ Names(error, "end_date")

(* C3: when requests.get or response.json raised, the call returns None    *)
(* and raises nothing; an error is raised only by a call that has issued   *)
(* no GET.                                                                 *)
C3_TransportFailureReturnsNone ==
    /\ TransportFailed => (json_response = None /\ error = NoError)
    /\ pc = "raised" => call_gets = 0

C3_Witness ==
    /\ pc = "return"
    /\ response # Unset
    /\ ~response.wellformed
    /\ json_response = None
    /\ fn = "request_daily_summary"

(* C4: when the transport answered with a well-formed document, the call   *)
(* returns that document whatever its status and raises nothing; a call    *)
(* raises only when a required field is empty.                             *)
C4_StatusIsNotAnError ==
    /\ (pc = "return" /\ response # Unset /\ response.wellformed)
           => (json_response = response.doc /\ error = NoError)
    /\ pc = "raised"
           => \E f \in (IF fn = "request_list_info" THEN {"email", "key"}
                        ELSE {"email", "key", "param", "begin_date",
                              "end_date"}) :
                  request_template[f] = ""

C4_Witness ==
    /\ pc = "return"
    /\ response # Unset
    /\ response.wellformed
    /\ json_response.Header[1].status = "Failed"
    /\ fn = "request_list_info"

(* C5 as stated: after N completed calls the throttle sleep has been       *)
(* performed N times and at least N minimum intervals have elapsed,        *)
(* whatever the outcome of each call.                                      *)
C5_SleepOnEveryCall ==
    pc = "idle" => (sleeps = calls /\ clock >= calls * API_THROTTLE_WAIT)

(* C5 amended: the throttle sleep is performed once in every call that     *)
(* passes validation, before its GET and whatever the GET's outcome; a     *)
(* call that raises a missing-field error performs none.  After N          *)
(* completed calls of which R raised, N - R sleeps have been performed     *)
(* and at least N - R minimum intervals have elapsed.                      *)
C5_SleepOnEveryValidatedCall ==
    /\ sleeps = calls - n_raised - (IF pc = "throttle" THEN 1 ELSE 0)
    /\ clock >= sleeps * API_THROTTLE_WAIT
    /\ API_THROTTLE_WAIT > 0
    /\ Len(get_log) <= sleeps

C5_Witness ==
    /\ pc = "idle"
    /\ calls = 2
    /\ n_raised = 1
    /\ sleeps = 1
    /\ Len(get_log) = 1

(* C6: no 60-second window of a run of sequential calls contains more      *)
(* than 100 HTTP GETs.                                                     *)
C6_RateCeiling ==
    \A m \in 1..Len(get_log) : \A n \in m..Len(get_log) :
        get_log[n] - get_log[m] < 60000 => n - m + 1 <= 100

(* C7: whether a call raises and which URL it requests are determined by   *)
(* the call's own arguments and the contents of the template passed to it  *)
(* (the empty template literal when none is passed), whatever calls were   *)
(* made before; a call with no credentials and no template raises.         *)
C7_CallsAreIndependent ==
    InCall =>
        LET passed == IF uses_default THEN TemplateLiteral ELSE entry_template
            t == Merge(fn, passed, args)
        IN /\ (pc = "raised") = (Validate(fn, t) # NoError)
           /\ PastValidation => request_url = ComposeUrl(endpoint_action, t)
           /\ ( /\ uses_default
                /\ ~Truthy(args, "email_address")
                /\ ~Truthy(args, "key") ) => pc = "raised"

(* C8: a step changes in a template only fields for which the call being   *)
(* started was given an override, and only in the template that call was   *)
(* given; every other field of both templates keeps its value.             *)
C8_OnlyOverriddenFieldsChange ==
    [][ /\ \A f \in Fields :
             request_data'[f] # request_data[f]
                 => /\ pc = "idle" /\ pc' # "idle" /\ ~uses_default'
                    /\ f \in OverriddenFields(args')
        /\ \A f \in Fields :
             AQS_REQUEST_TEMPLATE'[f] # AQS_REQUEST_TEMPLATE[f]
                 => /\ pc = "idle" /\ pc' # "idle" /\ uses_default'
                    /\ f \in OverriddenFields(args') ]_vars

C8_Witness ==
    /\ InCall
    /\ ~uses_default
    /\ fn = "request_daily_summary"
    /\ DOMAIN args = {"param"}
    /\ request_template.param # entry_template.param
    /\ entry_template.state # ""
    /\ request_template.state = entry_template.state
    /\ request_template.email = entry_template.email

(* C9: in a call that passed validation, every argument among              *)
(* email_address, key, param, begin_date, end_date supplied non-empty is   *)
(* the value of its field in the merged template and in the URL: the URL   *)
(* just composed is the one with the argument's value, and where the       *)
(* endpoint has the field's placeholder and the template held another      *)
(* value it is not the one composed with the template's earlier value.     *)
C9_ArgumentsTakePrecedence ==
    PastValidation =>
        \A n \in DOMAIN args \ {"fips"} :
            args[n] # "" =>
                LET f == ArgField(n)
                    action == EndpointTemplate(endpoint_action)
                IN /\ request_template[f] = args[n]
                   /\ pc = "throttle" =>
                      /\ request_url = API_REQUEST_URL \o
                           Format(action,
                                  [request_template EXCEPT ![f] = args[n]])
                      /\ (f \in Placeholders(action)
                            /\ entry_template[f] # args[n])
                           => request_url # API_REQUEST_URL \o
                                Format(action,
                                       [request_template
                                          EXCEPT ![f] = entry_template[f]])

C9_Witness ==
    /\ pc = "throttle"
    /\ fn = "request_daily_summary"
    /\ "begin_date" \in DOMAIN args
    /\ entry_template.begin_date # ""
    /\ entry_template.begin_date # args.begin_date
    /\ "email_address" \in DOMAIN args
    /\ entry_template.email = USERNAME
    /\ args.email_address = OtherEmail

(* C10: in a request_daily_summary call given a 5-character fips, the      *)
(* template's state is its first 2 characters and its county the other 3   *)
(* ("46103": "46" and "103"), and the by-county URL ends with them.        *)
C10_FipsSplit ==
    ( /\ InCall
      /\ fn = "request_daily_summary"
      /\ "fips" \in DOMAIN args
      /\ Len(args.fips) = 5 )
        => /\ Len(request_template.state) = 2
           /\ Len(request_template.county) = 3
           /\ request_template.state \o request_template.county = args.fips
           /\ args.fips = "46103"
                => (request_template.state = "46"
                      /\ request_template.county = "103")
           /\ (PastValidation
                 /\ endpoint_action = "API_ACTION_DAILY_SUMMARY_COUNTY")
                => EndsWith(request_url,
                            "&state=" \o SubSeq(args.fips, 1, 2)
                                \o "&county=" \o SubSeq(args.fips, 3, 5))

C10_Witness ==
    /\ pc = "throttle"
    /\ fn = "request_daily_summary"
    /\ endpoint_action = "API_ACTION_DAILY_SUMMARY_COUNTY"
    /\ "fips" \in DOMAIN args
    /\ args.fips = "46103"
    /\ entry_template.state = "53"
    /\ request_template.state = "46"
    /\ request_template.county = "103"

----------------------------------------------------------------------------
(* C11: the URL of a call is the API base URL followed by the endpoint's   *)
(* text with each placeholder replaced by the merged template's value;     *)
(* changing a field that is no placeholder of the endpoint leaves the URL  *)
(* as it is, changing one that is a placeholder changes it.                *)

\* the URLs of the five endpoints, written out
UrlOf(action, t) ==
    LET cred == "?email=" \o t.email \o "&key=" \o t.key
        query == cred \o "&param=" \o t.param \o "&bdate=" \o t.begin_date
                      \o "&edate=" \o t.end_date
        zero == "0.0"
    IN "https://aqs.epa.gov/data/api" \o
       (CASE action = "API_ACTION_LIST_CLASSES" -> "/list/classes" \o cred
          [] action = "API_ACTION_LIST_PARAMS" ->
                 "/list/parametersByClass" \o cred \o "&pc=" \o t.pclass
          [] action = "API_ACTION_LIST_SITES" ->
                 "/list/sitesByCounty" \o cred \o "&state=" \o t.state
                     \o "&county=" \o t.county
          [] action = "API_ACTION_DAILY_SUMMARY_COUNTY" ->
                 "/dailyData/byCounty" \o query \o "&state=" \o t.state
                     \o "&county=" \o t.county
          [] action = "API_ACTION_DAILY_SUMMARY_BOX" ->
                 "/dailyData/byBox" \o query \o "&minlat=" \o zero
                     \o "&maxlat=" \o zero \o "&minlon=" \o zero
                     \o "&maxlon=" \o zero)

\* the same template with another value in field f
Altered(t, f) ==
    IF f \in FloatFields THEN [t EXCEPT ![f] = t[f] + 1]
    ELSE [t EXCEPT ![f] = t[f] \o "9"]

C11_UrlFromPlaceholdersOnly ==
    pc = "throttle" =>
        /\ request_url = UrlOf(endpoint_action, request_template)
        /\ \A f \in Fields :
             (ComposeUrl(endpoint_action, Altered(request_template, f))
                  # request_url)
               = (f \in Placeholders(EndpointTemplate(endpoint_action)))

C11_Witness ==
    /\ pc = "throttle"
    /\ endpoint_action = "API_ACTION_LIST_CLASSES"
    /\ request_template.param # ""
    /\ request_template.state # ""
    /\ request_template.begin_date # ""
    /\ request_url =
         "https://aqs.epa.gov/data/api/list/classes?email=adts@uw.edu&key=greykit72"

----------------------------------------------------------------------------
(* C12: a call issues at most one HTTP GET: none until the request is      *)
(* sent, exactly one once the transport has answered or failed, and a      *)
(* failed request is not sent again.                                       *)
C12_AtMostOneGet ==
    /\ call_gets <= 1
    /\ pc \in {"idle", "raised", "throttle", "get"} => call_gets = 0
    /\ pc \in {"decode", "return"} => call_gets = 1
    /\ Len(get_log) <= calls

C12_Witness ==
    /\ TransportFailed
    /\ response = Unset
    /\ call_gets = 1
    /\ json_response = None

----------------------------------------------------------------------------
(* C13: a daily-summary call whose merged email, key, param, begin_date    *)
(* and end_date are non-empty does not raise and has issued exactly one    *)
(* GET when it returns, whatever state and county hold; a list-info call   *)
(* whose merged email and key are non-empty likewise, whatever its other   *)
(* fields hold.                                                            *)
RequiredFields(f) ==
    IF f = "request_list_info" THEN {"email", "key"}
    ELSE {"email", "key", "param", "begin_date", "end_date"}

C13_RequiredFieldsSuffice ==
    (InCall /\ \A f \in RequiredFields(fn) : request_template[f] # "")
        => /\ pc # "raised"
           /\ error = NoError
           /\ pc = "return" => call_gets = 1

C13_Witness ==
    /\ pc = "return"
    /\ fn = "request_daily_summary"
    /\ request_template.state = ""
    /\ request_template.county = ""
    /\ call_gets = 1

----------------------------------------------------------------------------
----------------------------------------------------------------------------
(* C14: when the same list-info call is made twice against a transport     *)
(* that answers the same way, the second call has the URL, the returned    *)
(* value and the error of the first, and leaves the template as the first  *)
(* call left it.                                                           *)
C14_SecondCallRepeatsFirst ==
    Len(seen) = 2 => seen[1] = seen[2]

C14_Witness ==
    /\ Len(seen) = 2
    /\ plan.dflt
    /\ plan.action = "API_ACTION_LIST_CLASSES"
    /\ seen[2].out = Doc("Success", << >>)
    /\ seen[2].url =
         "https://aqs.epa.gov/data/api/list/classes?email=x@uw.edu&key=otherkey"
    /\ seen[2].template # TemplateLiteral
    /\ seen[2].template = AQS_REQUEST_TEMPLATE

----------------------------------------------------------------------------
(* Vocabulary of the properties of the yearly loop *)

\* the non-null aqi values of the records, each record tested on its own
\* field
NonNullAqi(records) ==
    LET kept == SelectSeq(records,
                    LAMBDA day : "aqi" \in DOMAIN day /\ day.aqi # None)
    IN [k \in 1..Len(kept) |-> kept[k].aqi.number]

\* the k-th request of the loop was answered and the cell is past its days
Averaged(k) ==
    /\ k <= Len(fetched)
    /\ \/ k < Len(fetched)
       \/ lpc \in {"for", "filter", "done"}
       \/ lpc = "aborted" /\ req # None

\* the URL of the loop's request for year y
LoopUrl(y) ==
    "https://aqs.epa.gov/data/api/dailyData/byCounty?email=adts@uw.edu"
      \o "&key=greykit72&param=81102,88101,88502&bdate=" \o ToString(y)
      \o "0501&edate=" \o ToString(y) \o "1031&state=46&county=103"

----------------------------------------------------------------------------
(* C15: the value the loop derives for a year is the mean of the non-null  *)
(* aqi fields of the records served for that year, each record tested on   *)
(* its own field, and is None when there is no such field.                 *)
C15_YearlyMeanOfNonNull ==
    \A k \in 1..Len(fetched) :
        Averaged(k) =>
            /\ Len(aqi) >= k
            /\ aqi[k] = (IF NonNullAqi(fetched[k]) # << >>
                         THEN Mean(NonNullAqi(fetched[k])) ELSE None)

----------------------------------------------------------------------------
(* C16: the table left by the notebook has exactly one row for every year  *)
(* that had a non-null aqi observation, also when the observations         *)
(* average to 0, and no row for any other year.                            *)
C16_RowPerObservedYear ==
    lpc = "done" =>
        /\ \A k \in 1..Len(year) :
              (\E r \in 1..Len(df) : df[r].year = year[k])
                 = (NonNullAqi(fetched[k]) # << >>)
        /\ \A r1, r2 \in 1..Len(df) : df[r1].year = df[r2].year => r1 = r2

----------------------------------------------------------------------------
(* C18: with state 46, county 103, param 81102,88101,88502 and the dates   *)
(* of 1985, the by-county URL carries exactly those values, and when the   *)
(* transport serves records with aqi 10, null, 20 the value recorded for   *)
(* 1985 is 15.                                                             *)
C18_EndToEnd1985 ==
    /\ (lpc = "call" /\ pc = "throttle" /\ i = 1985) =>
          request_url = LoopUrl(1985)
    /\ \A k \in 1..Len(fetched) :
          ( /\ Averaged(k)
            /\ LoopFirst + k - 1 = 1985
            /\ fetched[k] = << Day(Number(10)), Day(None), Day(Number(20)) >> )
          => /\ Len(aqi) >= k
             /\ aqi[k] # None
             /\ aqi[k].sum = 15 * aqi[k].count

----------------------------------------------------------------------------
(* C19: the request of the loop's iteration for year i, for every i from   *)
(* 1963 to 2023 in turn, carries begin_date i0501 and end_date i1031 in    *)
(* its template and in its URL, not the dates the previous iteration left. *)
C19_DatesOfTheIterationYear ==
    /\ (lpc = "call" /\ pc = "throttle") =>
          /\ i \in 1963..2023
          /\ i = 1963 + Len(year)
          /\ request_template.begin_date = ToString(i) \o "0501"
          /\ request_template.end_date = ToString(i) \o "1031"
          /\ request_url = LoopUrl(i)
    /\ lpc \in {"filter", "done"} =>
          /\ Len(get_log) = 61
          /\ year = [k \in 1..61 |-> 1962 + k]

C19_Witness ==
    /\ lpc = "call"
    /\ pc = "throttle"
    /\ i = 1986
    /\ entry_template.begin_date = "19850501"
    /\ request_template.begin_date = "19860501"
    /\ request_url = LoopUrl(1986)

----------------------------------------------------------------------------
(* C20, as stated: a template is passed to one client call at most.        *)
C20_TemplatePassedOnce == passes <= 1

(* C20: the loop creates one template and passes it to every one of its    *)
(* calls; a call finds in it the dates the previous call wrote, and        *)
(* overwrites both with its own year's dates before they are read; every   *)
(* other field has the value the caller set, and the module's default      *)
(* template is left alone.                                                 *)
C20_OneTemplateForTheLoop ==
    (lpc = "call" /\ pc # "idle") =>
        /\ pc # "raised"
        /\ ~uses_default
        /\ passes = i - LoopFirst + 1
        /\ passes = calls
        /\ entry_template.begin_date = (IF passes = 1 THEN "" ELSE BeginOf(i - 1))
        /\ entry_template.end_date = (IF passes = 1 THEN "" ELSE EndOf(i - 1))
        /\ request_data.begin_date = BeginOf(i)
        /\ request_data.end_date = EndOf(i)
        /\ \A f \in Fields \ {"begin_date", "end_date"} :
              request_data[f] = RunTemplate[f]
        /\ AQS_REQUEST_TEMPLATE = TemplateLiteral

C20_Witness ==
    /\ lpc = "call"
    /\ pc = "return"
    /\ passes = 24
    /\ entry_template.end_date = "19851031"
    /\ request_data.end_date = "19861031"
    /\ json_response # None

----------------------------------------------------------------------------
(* C21: when a call raises a missing-field error, every non-empty          *)
(* argument of the call is already stored in the template (a 5-character   *)
(* fips as state and county), so the template differs from the one the     *)
(* call found wherever an argument differs from the value found.           *)
C21_OverridesStoredBeforeRaise ==
    pc = "raised" =>
        /\ \A n \in DOMAIN args \ {"fips"} :
              args[n] # "" =>
                  /\ request_template[ArgField(n)] = args[n]
                  /\ entry_template[ArgField(n)] # args[n]
                       => request_template # entry_template
        /\ ("fips" \in DOMAIN args /\ Len(args.fips) = 5) =>
              request_template.state \o request_template.county = args.fips
        /\ call_gets = 0

C21_Witness ==
    /\ pc = "raised"
    /\ fn = "request_list_info"
    /\ args = [email_address |-> OtherEmail]
    /\ error = ErrKey("request_list_info")
    /\ entry_template.email = ""
    /\ request_template.email = OtherEmail
    /\ request_template.key = ""

----------------------------------------------------------------------------
(* C24: the module-level AQS_REQUEST_TEMPLATE starts with empty email,     *)
(* key, param and dates; a call that is passed a template of its own       *)
(* leaves it exactly as it is, as does every later step of any call, so    *)
(* it stays so while every call passes its own template; a call made       *)
(* without a template writes each of its non-empty arguments into it.      *)
C24_OwnTemplateSparesDefault ==
    /\ \A f \in {"email", "key", "param", "begin_date", "end_date"} :
          AQS_REQUEST_TEMPLATE[f] = ""
    /\ [][ /\ (pc = "idle" /\ pc' # "idle" /\ ~uses_default')
                => AQS_REQUEST_TEMPLATE' = AQS_REQUEST_TEMPLATE
           /\ pc # "idle" => AQS_REQUEST_TEMPLATE' = AQS_REQUEST_TEMPLATE
           /\ (pc = "idle" /\ pc' # "idle" /\ uses_default')
                => \A n \in DOMAIN args' \ {"fips"} :
                      args'[n] # ""
                        => AQS_REQUEST_TEMPLATE'[ArgField(n)] = args'[n] ]_vars

C24_Witness ==
    /\ calls = 2
    /\ pc = "return"
    /\ ~uses_default
    /\ "key" \in DOMAIN args
    /\ request_data.key = OtherKey
    /\ entry_template.key = APIKEY
    /\ AQS_REQUEST_TEMPLATE = TemplateLiteral

----------------------------------------------------------------------------
(* C25: in a request_daily_summary call whose fips is absent, empty or not *)
(* 5 characters long, the template's state and county are the ones the     *)
(* call found and the by-county URL ends with them; the fips causes no     *)
(* error: if the call raised, a required field is empty.                   *)
C25_OtherFipsIgnored ==
    ( /\ InCall
      /\ fn = "request_daily_summary"
      /\ ("fips" \in DOMAIN args => Len(args.fips) # 5) )
        => /\ request_template.state = entry_template.state
           /\ request_template.county = entry_template.county
           /\ pc = "raised" =>
                 \E f \in RequiredFields(fn) : request_template[f] = ""
           /\ (pc = "throttle"
                 /\ endpoint_action = "API_ACTION_DAILY_SUMMARY_COUNTY")
                => EndsWith(request_url,
                            "&state=" \o entry_template.state
                                \o "&county=" \o entry_template.county)

C25_Witness ==
    /\ pc = "throttle"
    /\ fn = "request_daily_summary"
    /\ endpoint_action = "API_ACTION_DAILY_SUMMARY_COUNTY"
    /\ "fips" \in DOMAIN args
    /\ args.fips = "4610"
    /\ entry_template.state = "46"
    /\ request_template.state = "46"
    /\ request_template.county = "103"

----------------------------------------------------------------------------
(* C26: an argument that is None or the empty string leaves its field of   *)
(* the template as the call found it, and the URL is composed with that    *)
(* value; an empty email_address or key does not clear a credential the    *)
(* template holds, and the call does not raise for that credential.        *)
C26_EmptyArgumentKeepsTemplate ==
    InCall =>
        \A n \in {"email_address", "key", "param", "begin_date", "end_date"} :
            ~Truthy(args, n) =>
                LET f == ArgField(n)
                IN /\ request_template[f] = entry_template[f]
                   /\ pc = "throttle" =>
                         request_url =
                           UrlOf(endpoint_action,
                                 [request_template EXCEPT ![f] = entry_template[f]])
                   /\ (f = "email" /\ entry_template.email # "")
                         => error # ErrEmail(fn)
                   /\ (f = "key" /\ entry_template.key # "")
                         => error # ErrKey(fn)

C26_Witness ==
    /\ pc = "throttle"
    /\ args = [email_address |-> ""]
    /\ entry_template.email = USERNAME
    /\ request_template.email = USERNAME
    /\ request_template.key = APIKEY

----------------------------------------------------------------------------
(* C28: the required fields are checked in the order email, key and, in    *)
(* request_daily_summary, param, begin_date, end_date: the error of a      *)
(* call that raised is the one of the first empty field in that order,     *)
(* whatever later fields are empty, and a call raises once at most.        *)
ValidationOrder(f) ==
    IF f = "request_list_info" THEN << "email", "key" >>
    ELSE << "email", "key", "param", "begin_date", "end_date" >>

\* the text of the error for a field
MessageOf(field, f) ==
    "Must supply "
      \o (CASE field = "email" -> "an email address"
            [] field = "key" -> "a key"
            [] field = "param" -> "param values"
            [] field = "begin_date" -> "a begin_date"
            [] field = "end_date" -> "an end_date")
      \o " to call '" \o f \o "()'"

C28_FirstEmptyFieldIsReported ==
    /\ n_raised <= calls
    /\ pc = "raised" =>
          LET order == ValidationOrder(fn)
              empty == { k \in 1..Len(order) : request_template[order[k]] = "" }
          IN /\ empty # {}
             /\ \E k \in empty :
                   /\ \A m \in empty : k <= m
                   /\ error = MessageOf(order[k], fn)

C28_Witness ==
    /\ pc = "raised"
    /\ fn = "request_daily_summary"
    /\ request_template.email # ""
    /\ request_template.key = ""
    /\ request_template.param = ""
    /\ request_template.end_date = ""
    /\ error = "Must supply a key to call 'request_daily_summary()'"

----------------------------------------------------------------------------
(* C23: when the loop's request for a year gives None, the cell does not   *)
(* go on to store the year or to the next year: its next step ends it,     *)
(* with the lists aqi and year as they were, holding the entries of the    *)
(* earlier years only, and nothing happens after that.                     *)
C23_NullResultStopsTheLoop ==
    [][ /\ req' = None => lpc' \in {"days", "aborted"}
        /\ (lpc = "days" /\ req = None)
             => /\ lpc' = "aborted"
                /\ aqi' = aqi
                /\ year' = year
                /\ Len(year') = i - LoopFirst
                /\ Len(aqi') = i - LoopFirst
        /\ lpc = "aborted" => vars' = vars ]_vars

C23_Witness ==
    /\ lpc = "aborted"
    /\ req = None
    /\ i = 1986
    /\ year = [k \in 1..23 |-> 1962 + k]
    /\ Len(aqi) = 23
    /\ aqi[23] # None
    /\ df = Unset

----------------------------------------------------------------------------
(* C27: the lists aqi and year have the same length; year is 1963, 1964,   *)
(* ... without gap or repeat, up to the year of the last completed         *)
(* iteration; every completed iteration has added one entry to each, a     *)
(* mean of at least one value or None.                                     *)
C27_ListsGrowTogether ==
    /\ Len(aqi) = Len(year)
    /\ year = [k \in 1..Len(year) |-> 1962 + k]
    /\ \A k \in 1..Len(aqi) :
          IF aqi[k] = None THEN TRUE ELSE aqi[k].count > 0
    /\ lpc \in {"call", "days", "store"} => Len(year) = i - 1963
    /\ (lpc = "for" /\ calls > 0) =>
          /\ Len(year) = i - 1963 + 1
          /\ year[Len(year)] = i
    /\ lpc \in {"filter", "done"} => Len(year) = 61

C27_Witness ==
    /\ lpc = "for"
    /\ i = 1986
    /\ Len(year) = 24
    /\ year[24] = 1986
    /\ aqi[23] # None
    /\ aqi[24] = None

----------------------------------------------------------------------------
(* C22: when the dict of a call, after the overrides, has no key for a     *)
(* placeholder of the endpoint or for a field the checks read, the call    *)
(* has raised, without a sleep and without a GET, and has returned         *)
(* nothing, not None; where every checked field is there and non-empty     *)
(* the error is the KeyError of a missing placeholder.                     *)
KeysNeeded(f, action) ==
    (IF f = "request_list_info" THEN {"email", "key"}
     ELSE {"email", "key", "param", "begin_date", "end_date"})
      \cup Placeholders(EndpointTemplate(action))

C22_MissingKeyRaisesBeforeSleep ==
    (InCall /\ KeysNeeded(fn, endpoint_action) \ DOMAIN request_template # {})
        => /\ pc = "raised"
           /\ error # NoError
           /\ call_sleeps = 0
           /\ call_gets = 0
           /\ json_response = Unset
           /\ (\A f \in RequiredFields(fn) :
                  IF f \in DOMAIN request_template
                  THEN request_template[f] # "" ELSE FALSE)
                => \E k \in Placeholders(EndpointTemplate(endpoint_action))
                           \ DOMAIN request_template :
                       error = "KeyError: '" \o k \o "'"

C22_Witness ==
    /\ pc = "raised"
    /\ fn = "request_daily_summary"
    /\ endpoint_action = "API_ACTION_DAILY_SUMMARY_COUNTY"
    /\ DOMAIN request_template = Fields \ {"county"}
    /\ request_template.end_date = "19851031"
    /\ error = "KeyError: 'county'"
    /\ sleeps = 0
    /\ get_log = << >>

====
